---- MODULE Spec2Model ----
(***************************************************************************)
(* Model of js/src/instructions/deposit.ts: getDepositInstruction, an      *)
(* async function that encodes the deposit payload, awaits two program     *)
(* address derivations and returns a TransactionInstruction.               *)
(*                                                                         *)
(* Numbers.  An amount is held as five base-2^16 limbs, least significant  *)
(* first, so that 64-bit values (and values just above 2^64) are exact.    *)
(* A JavaScript Number is the same five limbs, restricted to the values an *)
(* IEEE-754 double can hold (53 significant bits).                         *)
(*                                                                         *)
(* Addresses are small integers; Absent stands for `undefined`.            *)
(***************************************************************************)
EXTENDS Integers, Sequences, FiniteSets, TLC

VARIABLES
    calls,      \* the invocations made so far, in call order: one frame each
    supplied,   \* ghost: the arguments as the caller handed them in
    decoded     \* per invocation, the payload as decoded by the same layout

vars == <<calls, supplied, decoded>>

(***************************************************************************)
(* Bounds of the model.                                                    *)
(***************************************************************************)
NumCalls == 3       \* invocations in one behaviour of Spec
MaxAddr == 2        \* caller-supplied addresses are 1..MaxAddr

(***************************************************************************)
(* Addresses.                                                              *)
(***************************************************************************)
Absent == 0                 \* `undefined` where a PublicKey is expected
TOKEN_PROGRAM_ID == 2
SystemProgramId == 3        \* SystemProgram.programId
Addr == 1..MaxAddr

(***************************************************************************)
(* Numbers as limbs.                                                       *)
(***************************************************************************)
Limb == 2 ^ 16
Zero == <<0, 0, 0, 0, 0>>

TopLimb(a) ==
    IF \E j \in 1..Len(a) : a[j] # 0
    THEN CHOOSE j \in 1..Len(a) : a[j] # 0 /\ \A k \in (j+1)..Len(a) : a[k] = 0
    ELSE 0

RECURSIVE BitLength(_)
BitLength(n) == IF n = 0 THEN 0 ELSE 1 + BitLength(n \div 2)

\* index of the most significant set bit, -1 for zero
Msb(a) == IF TopLimb(a) = 0 THEN -1
          ELSE 16 * (TopLimb(a) - 1) + BitLength(a[TopLimb(a)]) - 1

RECURSIVE Propagate(_, _, _)
\* a + c * 2^(16*(j-1)), carried upwards
Propagate(a, j, c) ==
    IF j > Len(a) \/ c = 0 THEN a
    ELSE LET s == a[j] + c
         IN  Propagate([a EXCEPT ![j] = s % Limb], j + 1, s \div Limb)

\* The nearest double of an integer below 2^65 (round half to even).  This is
\* the value nu64's arithmetic works on: amount.lamports is an operand of `/`
\* and `-`, so it is a Number there, whether it was handed in as one or as a
\* big-integer object (converted through its decimal string).  It is also what
\* the double sum hi32 * 2^32 + lo32 of the decoder gives.
NearestDouble(a) ==
    LET h == Msb(a) IN
    IF h <= 52 THEN a
    ELSE LET k    == h - 52
             r    == a[1] % (2 ^ k)
             half == 2 ^ (k - 1)
             odd  == (a[1] \div (2 ^ k)) % 2 = 1
             down == [a EXCEPT ![1] = a[1] - r]
         IN  IF r > half \/ (r = half /\ odd)
             THEN Propagate(down, 1, 2 ^ k)
             ELSE down

(***************************************************************************)
(* Layout codec: BufferLayout.struct([u8('instruction'), nu64('amount')]). *)
(***************************************************************************)
\* divmodInt64: hi32 = Math.floor(src / 2^32), lo32 = src - hi32 * 2^32
divmodInt64(src) ==
    LET x == NearestDouble(src)
    IN  [hi32 |-> <<x[3], x[4], x[5]>>, lo32 |-> <<x[1], x[2], 0>>]

\* Buffer.writeUInt32LE: a value above 0xffffffff is a RangeError
writeUInt32LE(value) ==
    IF value[3] # 0
    THEN [threw |-> TRUE, error |-> "RangeError", bytes |-> <<>>]
    ELSE [threw |-> FALSE, error |-> "",
          bytes |-> <<value[1] % 256, value[1] \div 256,
                      value[2] % 256, value[2] \div 256>>]

\* nu64.encode: the low word is written first, then the high word
nu64_encode(src) ==
    LET split == divmodInt64(src)
        lo    == writeUInt32LE(split.lo32)
        hi    == writeUInt32LE(split.hi32)
    IN  IF lo.threw THEN lo
        ELSE IF hi.threw THEN hi
        ELSE [threw |-> FALSE, error |-> "", bytes |-> lo.bytes \o hi.bytes]

\* u8.encode
u8_encode(src) ==
    IF src > 255
    THEN [threw |-> TRUE, error |-> "RangeError", bytes |-> <<>>]
    ELSE [threw |-> FALSE, error |-> "", bytes |-> <<src>>]

\* dataLayout.span
span == 1 + 8

\* data = Buffer.alloc(span); dataLayout.encode({instruction, amount}, data)
dataLayout_encode(src) ==
    LET d == u8_encode(src.instruction)
        a == nu64_encode(src.amount)
    IN  IF d.threw THEN d
        ELSE IF a.threw THEN a
        ELSE [threw |-> FALSE, error |-> "", bytes |-> d.bytes \o a.bytes]

\* nu64.decode: roundedInt64(readUInt32LE(4), readUInt32LE(0))
nu64_decode(b) ==
    NearestDouble(<<b[1] + 256 * b[2], b[3] + 256 * b[4],
                    b[5] + 256 * b[6], b[7] + 256 * b[8], 0>>)

\* dataLayout.decode(data)
dataLayout_decode(b) ==
    [instruction |-> b[1], amount |-> nu64_decode(SubSeq(b, 2, 9))]

(***************************************************************************)
(* Address derivation (utils.findAuthorityProgramAddress and the SDK       *)
(* search it calls).  The hash and the curve test are abstract: Hash is    *)
(* collision-free on the model's inputs, and IsOnCurve is chosen so that   *)
(* searches end at different bumps and some searches are exhausted.        *)
(***************************************************************************)
MaxBump == 255
Seeds == {"reserve_account", "mint_authority"}
SeedCode(seed) == IF seed = "reserve_account" THEN 0 ELSE 1

Hash(seeds, bump, programId) ==
    ((programId * 16 + seeds[1]) * 2 + SeedCode(seeds[2])) * 256 + bump

IsOnCurve(h) ==
    LET g == h \div 256
        b == h % 256
    IN  (g % 7) \in {0, 3} \/ b > MaxBump - (g % 3)

RECURSIVE Scan(_, _, _, _)
\* for (bump = hi; bump >= lo; bump--): the first bump whose candidate is off
\* the curve, or -1
Scan(seeds, programId, lo, hi) ==
    IF hi < lo THEN -1
    ELSE IF ~IsOnCurve(Hash(seeds, hi, programId)) THEN hi
    ELSE Scan(seeds, programId, lo, hi - 1)

RECURSIVE Search(_, _, _)
\* The descending scan from bump down to 0, taken sixteen bumps at a time
\* (the evaluator's recursion depth is limited).
Search(seeds, programId, bump) ==
    IF bump < 0 THEN -1
    ELSE IF Scan(seeds, programId, bump - (bump % 16), bump) >= 0
    THEN Scan(seeds, programId, bump - (bump % 16), bump)
    ELSE Search(seeds, programId, bump - (bump % 16) - 1)

derive(programId, seeds) ==
    LET bump == Search(seeds, programId, MaxBump)
    IN  IF bump < 0
        THEN [ok |-> FALSE, error |-> "DerivationExhausted", address |-> Absent,
              bump |-> 0]
        ELSE [ok |-> TRUE, error |-> "", address |-> Hash(seeds, bump, programId),
              bump |-> bump]

\* derive, tabulated once over the program and instance ids of the model
PdaTable ==
    [programId \in Addr, instanceId \in Addr, seed \in Seeds |->
        derive(programId, <<instanceId, seed>>)]

findAuthorityProgramAddress(programAddresses, additionalSeedString) ==
    PdaTable[programAddresses.solidoProgramId,
             programAddresses.solidoInstanceId,
             additionalSeedString]

(***************************************************************************)
(* getDepositInstruction.                                                  *)
(***************************************************************************)
Pending == [status |-> "pending"]
Rejected(reason) == [status |-> "rejected", reason |-> reason]
Fulfilled(value) == [status |-> "fulfilled", value |-> value]

AccountMeta(pubkey, isSigner, isWritable) ==
    [pubkey |-> pubkey, isSigner |-> isSigner, isWritable |-> isWritable]

\* a key list with the sender and the recipient entries exchanged
keys_recipientFirst(f) ==
    << AccountMeta(f.programAddresses.solidoInstanceId, FALSE, TRUE),
       AccountMeta(f.recipientStSolAddress, FALSE, TRUE),
       AccountMeta(f.senderAddress, TRUE, TRUE),
       AccountMeta(f.programAddresses.stSolMintAddress, FALSE, TRUE),
       AccountMeta(f.reserveAccountAddress, FALSE, TRUE),
       AccountMeta(f.mintAuthorityAddress, FALSE, FALSE),
       AccountMeta(TOKEN_PROGRAM_ID, FALSE, FALSE),
       AccountMeta(SystemProgramId, FALSE, FALSE) >>

\* const keys = [...]
keys(f) ==
    << AccountMeta(f.programAddresses.solidoInstanceId, FALSE, TRUE),
       AccountMeta(f.senderAddress, TRUE, TRUE),
       AccountMeta(f.recipientStSolAddress, FALSE, TRUE),
       AccountMeta(f.programAddresses.stSolMintAddress, FALSE, TRUE),
       AccountMeta(f.reserveAccountAddress, FALSE, TRUE),
       AccountMeta(f.mintAuthorityAddress, FALSE, FALSE),
       AccountMeta(TOKEN_PROGRAM_ID, FALSE, FALSE),
       AccountMeta(SystemProgramId, FALSE, FALSE) >>

\* an instruction addressed to the instance account instead of the program
TransactionInstruction_toInstance(f) ==
    [keys |-> keys(f), data |-> f.data,
     programId |-> f.programAddresses.solidoInstanceId]

\* new TransactionInstruction({keys, data, programId})
TransactionInstruction(f) ==
    [keys |-> keys(f), data |-> f.data,
     programId |-> f.programAddresses.solidoProgramId]

\* The call itself: the body runs up to its first await.
Begin(args) ==
    LET enc == dataLayout_encode([instruction |-> 1, amount |-> args.amount])
        f   == [pc |-> "awaitReserve",
                senderAddress |-> args.senderAddress,
                recipientStSolAddress |-> args.recipientStSolAddress,
                programAddresses |-> args.programAddresses,
                amount |-> args.amount,
                data |-> enc.bytes,
                reserveAccountAddress |-> Absent,
                mintAuthorityAddress |-> Absent,
                promise |-> Pending]
    IN  IF enc.threw
        THEN [f EXCEPT !.pc = "settled", !.promise = Rejected(enc.error)]
        ELSE f

\* a resumption that swallows a failed derivation and goes on with no address
AfterReserve_swallow(f) ==
    LET r == findAuthorityProgramAddress(f.programAddresses, "reserve_account")
    IN  [f EXCEPT !.pc = "awaitMint", !.reserveAccountAddress = r.address]

\* Resumption after `await findAuthorityProgramAddress(.., 'reserve_account')`
AfterReserve(f) ==
    LET r == findAuthorityProgramAddress(f.programAddresses, "reserve_account")
    IN  IF r.ok
        THEN [f EXCEPT !.pc = "awaitMint", !.reserveAccountAddress = r.address]
        ELSE [f EXCEPT !.pc = "settled", !.promise = Rejected(r.error)]

\* a resumption that stores the second derivation's result in the first one's
\* place and the first one's in the second's
AfterMint_crossed(f) ==
    LET r == findAuthorityProgramAddress(f.programAddresses, "mint_authority")
        g == [f EXCEPT !.pc = "settled",
                       !.reserveAccountAddress = r.address,
                       !.mintAuthorityAddress = f.reserveAccountAddress]
    IN  IF r.ok
        THEN [g EXCEPT !.promise = Fulfilled(TransactionInstruction(g))]
        ELSE [f EXCEPT !.pc = "settled", !.promise = Rejected(r.error)]

\* Resumption after `await findAuthorityProgramAddress(.., 'mint_authority')`
AfterMint(f) ==
    LET r == findAuthorityProgramAddress(f.programAddresses, "mint_authority")
        g == [f EXCEPT !.pc = "settled", !.mintAuthorityAddress = r.address]
    IN  IF r.ok
        THEN [g EXCEPT !.promise = Fulfilled(TransactionInstruction(g))]
        ELSE [f EXCEPT !.pc = "settled", !.promise = Rejected(r.error)]

NotDecoded == [instruction |-> -1, amount |-> Zero]

(***************************************************************************)
(* Inputs.                                                                 *)
(***************************************************************************)
ProgramAddresses ==
    [solidoProgramId : Addr, solidoInstanceId : Addr, stSolMintAddress : Addr]

Million == <<16960, 15, 0, 0, 0>>            \* 1000000
TwoPow53Plus1 == <<1, 0, 0, 32, 0>>       \* 2^53 + 1, not a double
MaxU64 == <<65535, 65535, 65535, 65535, 0>>  \* 2^64 - 1
TwoPow64 == <<0, 0, 0, 0, 1>>

\* Amounts below 2^64 around the 2^53 and 2^64 boundaries, and a few from 2^64 on.
Amounts ==
    { <<l0, l1, l2, l3, 0>> :
        l0 \in {0, 1, 1024, 63488, 64512, 65535}, l1 \in {0, 65535},
        l2 \in {0, 65535}, l3 \in {0, 32, 65535} }
    \cup {Million, TwoPow53Plus1, MaxU64, TwoPow64, <<1, 0, 0, 0, 1>>,
          <<65535, 65535, 65535, 65535, 1>>}

Args ==
    [senderAddress : Addr \cup {Absent},
     recipientStSolAddress : Addr \cup {Absent},
     programAddresses : ProgramAddresses,
     amount : Amounts]

\* the arguments used when several assemblies are in flight together
ConcurrentArgs ==
    { a \in Args :
        /\ a.senderAddress = 1
        /\ a.recipientStSolAddress = 2
        /\ a.programAddresses.stSolMintAddress = 1
        /\ a.programAddresses.solidoProgramId \in 1..2
        /\ a.programAddresses.solidoInstanceId \in 1..2
        /\ a.amount \in {Million, TwoPow64} }

(***************************************************************************)
(* Actions.                                                                *)
(***************************************************************************)
Init ==
    /\ calls = <<>>
    /\ supplied = <<>>
    /\ decoded = <<>>

Call(args) ==
    /\ calls' = Append(calls, Begin(args))
    /\ supplied' = Append(supplied, args)
    /\ decoded' = Append(decoded, NotDecoded)

\* reserveAccountAddress as one variable shared by all invocations: the
\* resumption overwrites it for every invocation that is waiting for its
\* second derivation
ResumeReserve_sharedLocal(i) ==
    /\ calls[i].pc = "awaitReserve"
    /\ calls' = [j \in 1..Len(calls) |->
                   IF j = i THEN AfterReserve(calls[i])
                   ELSE IF calls[j].pc = "awaitMint"
                   THEN [calls[j] EXCEPT !.reserveAccountAddress =
                            AfterReserve(calls[i]).reserveAccountAddress]
                   ELSE calls[j]]
    /\ UNCHANGED <<supplied, decoded>>

\* a resumption that derives the second address on the spot and returns the
\* instruction without a second suspension
ResumeReserve_noSecondAwait(i) ==
    /\ calls[i].pc = "awaitReserve"
    /\ calls' = [calls EXCEPT ![i] =
                   IF AfterReserve(calls[i]).pc = "awaitMint"
                   THEN AfterMint(AfterReserve(calls[i]))
                   ELSE AfterReserve(calls[i])]
    /\ UNCHANGED <<supplied, decoded>>

ResumeReserve(i) ==
    /\ calls[i].pc = "awaitReserve"
    /\ calls' = [calls EXCEPT ![i] = AfterReserve(calls[i])]
    /\ UNCHANGED <<supplied, decoded>>

ResumeMint(i) ==
    /\ calls[i].pc = "awaitMint"
    /\ calls' = [calls EXCEPT ![i] = AfterMint(calls[i])]
    /\ UNCHANGED <<supplied, decoded>>

DecodePayload(i) ==
    /\ calls[i].promise.status = "fulfilled"
    /\ decoded[i] = NotDecoded
    /\ decoded' = [decoded EXCEPT ![i] = dataLayout_decode(calls[i].promise.value.data)]
    /\ UNCHANGED <<calls, supplied>>

\* Several assemblies in flight, interleaved at their awaits.
Next ==
    \/ Len(calls) < NumCalls /\ \E args \in ConcurrentArgs : Call(args)
    \/ \E i \in 1..Len(calls) : ResumeReserve(i)
    \/ \E i \in 1..Len(calls) : ResumeMint(i)

Spec == Init /\ [][Next]_vars

\* One assembly, over the whole input space, followed by a decode of its payload.
NextOne ==
    \/ Len(calls) = 0 /\ \E args \in Args : Call(args)
    \/ \E i \in 1..Len(calls) : ResumeReserve(i)
    \/ \E i \in 1..Len(calls) : ResumeMint(i)
    \/ \E i \in 1..Len(calls) : DecodePayload(i)

SpecOne == Init /\ [][NextOne]_vars

(***************************************************************************)
(* Vocabulary of the properties.                                           *)
(***************************************************************************)
Invocations == 1..Len(calls)
Settled(i) == calls[i].pc = "settled"
IsFulfilled(i) == calls[i].promise.status = "fulfilled"
IsRejected(i) == calls[i].promise.status = "rejected"
Returned(i) == calls[i].promise.value
Below2Pow64(a) == a[5] = 0
\* the caller supplied both of its addresses
Addressed(i) ==
    Absent \notin {supplied[i].senderAddress, supplied[i].recipientStSolAddress}

\* (a div 256^i) mod 256, for i in 0..7
ByteOfAmount(a, i) == (a[(i \div 2) + 1] \div (IF i % 2 = 0 THEN 1 ELSE 256)) % 256
AmountLE(a) == [i \in 1..8 |-> ByteOfAmount(a, i - 1)]

\* the error kind the specification calls FieldOverflow (its 4.1: a RangeError)
FieldOverflow == "RangeError"
DerivationExhausted == "DerivationExhausted"
MissingAccount == "MissingAccount"

Reserve(pa) == findAuthorityProgramAddress(pa, "reserve_account")
MintAuthority(pa) == findAuthorityProgramAddress(pa, "mint_authority")

\* the assembly run alone, with nothing interleaved at its awaits
Alone(args) ==
    LET f0 == Begin(args)
        f1 == IF f0.pc = "awaitReserve" THEN AfterReserve(f0) ELSE f0
    IN  IF f1.pc = "awaitMint" THEN AfterMint(f1) ELSE f1

(***************************************************************************)
(* C1.  For every amount a with 0 <= a <= 2^64 - 1, the payload of the     *)
(* returned instruction is 9 bytes: the discriminant 1, then a as an       *)
(* unsigned 64-bit little-endian integer.                                  *)
(* Stated as claimed; the code rounds a to the nearest double first.       *)
(***************************************************************************)
C1_PayloadIsAmountLE ==
    \A i \in Invocations :
        (Addressed(i) /\ IsFulfilled(i) /\ Below2Pow64(supplied[i].amount)) =>
            /\ Len(Returned(i).data) = 9
            /\ Returned(i).data = <<1>> \o AmountLE(supplied[i].amount)

(***************************************************************************)
(* C2.  Every returned instruction has exactly 8 account references, in    *)
(* the order instance, sender, recipient, mint, reserve (derived), mint    *)
(* authority (derived), token program, system program, with the flags of   *)
(* the table, whatever the address values are.                             *)
(***************************************************************************)
C2_AccountOrderAndFlags ==
    \A i \in Invocations :
        IsFulfilled(i) =>
            LET k == Returned(i).keys
                a == supplied[i]
            IN  /\ Len(k) = 8
                /\ k[1] = [pubkey |-> a.programAddresses.solidoInstanceId,
                           isSigner |-> FALSE, isWritable |-> TRUE]
                /\ k[2] = [pubkey |-> a.senderAddress,
                           isSigner |-> TRUE, isWritable |-> TRUE]
                /\ k[3] = [pubkey |-> a.recipientStSolAddress,
                           isSigner |-> FALSE, isWritable |-> TRUE]
                /\ k[4] = [pubkey |-> a.programAddresses.stSolMintAddress,
                           isSigner |-> FALSE, isWritable |-> TRUE]
                /\ k[5] = [pubkey |-> Reserve(a.programAddresses).address,
                           isSigner |-> FALSE, isWritable |-> TRUE]
                /\ k[6] = [pubkey |-> MintAuthority(a.programAddresses).address,
                           isSigner |-> FALSE, isWritable |-> FALSE]
                /\ k[7] = [pubkey |-> TOKEN_PROGRAM_ID,
                           isSigner |-> FALSE, isWritable |-> FALSE]
                /\ k[8] = [pubkey |-> SystemProgramId,
                           isSigner |-> FALSE, isWritable |-> FALSE]

\* an instruction was returned for a sender, a recipient, an instance and a
\* token program that are all the same address
C2_Witness ==
    \E i \in Invocations :
        /\ IsFulfilled(i)
        /\ supplied[i].senderAddress = supplied[i].recipientStSolAddress
        /\ supplied[i].senderAddress = supplied[i].programAddresses.solidoInstanceId
        /\ supplied[i].senderAddress = TOKEN_PROGRAM_ID

(***************************************************************************)
(* C3.  Encoding an amount >= 2^64 fails with FieldOverflow and returns no *)
(* instruction, and the boundary is exact: 2^64 - 1 is encoded, 2^64 is    *)
(* not.  Stated as claimed; the code rejects 2^64 - 1 as well.             *)
(***************************************************************************)
C3_OverflowBoundaryExact ==
    \A i \in Invocations :
        /\ ~Below2Pow64(supplied[i].amount) =>
               calls[i].promise = Rejected(FieldOverflow)
        /\ (Addressed(i) /\ supplied[i].amount = MaxU64) =>
               calls[i].promise # Rejected(FieldOverflow)

(***************************************************************************)
(* C4.  If the 'reserve_account' or the 'mint_authority' derivation that   *)
(* the assembly invokes fails, the assembly fails with that same error and *)
(* never returns an instruction, whichever of the two fails.               *)
(***************************************************************************)
C4_DerivationFailurePropagates ==
    \A i \in Invocations :
        LET pa == supplied[i].programAddresses
            encoded == calls[i].data # <<>>
        IN  /\ (encoded /\ Settled(i) /\ ~Reserve(pa).ok) =>
                   calls[i].promise = Rejected(Reserve(pa).error)
            /\ (encoded /\ Settled(i) /\ Reserve(pa).ok /\ ~MintAuthority(pa).ok) =>
                   calls[i].promise = Rejected(MintAuthority(pa).error)
            /\ (~Reserve(pa).ok \/ ~MintAuthority(pa).ok) => ~IsFulfilled(i)

\* one assembly failed at its first derivation and another at its second
C4_Witness ==
    \E i, j \in Invocations :
        /\ calls[i].data # <<>> /\ Settled(i)
        /\ ~Reserve(supplied[i].programAddresses).ok
        /\ calls[i].promise = Rejected(DerivationExhausted)
        /\ calls[j].data # <<>> /\ Settled(j)
        /\ Reserve(supplied[j].programAddresses).ok
        /\ calls[j].reserveAccountAddress # Absent
        /\ ~MintAuthority(supplied[j].programAddresses).ok
        /\ calls[j].promise = Rejected(DerivationExhausted)

(***************************************************************************)
(* C5.  The build checks that every required address is present: with an   *)
(* absent sender or recipient it fails with MissingAccount and returns no  *)
(* instruction holding an absent address.  Stated as claimed; the code     *)
(* checks nothing.                                                         *)
(***************************************************************************)
C5_MissingAccountRejected ==
    \A i \in Invocations :
        Absent \in {supplied[i].senderAddress, supplied[i].recipientStSolAddress} =>
            /\ ~IsFulfilled(i)
            /\ calls[i].promise \in {Pending, Rejected(FieldOverflow),
                                     Rejected(DerivationExhausted),
                                     Rejected(MissingAccount)}
            /\ (Settled(i) /\ calls[i].mintAuthorityAddress # Absent) =>
                   calls[i].promise = Rejected(MissingAccount)

C6_StepOfCall(f, g) ==
    \/ g = f
    \/ /\ f.pc = "awaitReserve"
       /\ \/ g.pc = "awaitMint" /\ g.promise = Pending
          \/ g.pc = "settled" /\ g.promise.status = "rejected"
    \/ /\ f.pc = "awaitMint"
       /\ g.pc = "settled"
       /\ g.promise.status \in {"fulfilled", "rejected"}

C6_FirstStep(g) ==
    \/ g.pc = "awaitReserve" /\ g.promise = Pending /\ Len(g.data) = span
    \/ g.pc = "settled" /\ g.promise.status = "rejected"

C7_InterleavingIndependent ==
    \A i \in Invocations :
        Settled(i) =>
            /\ calls[i].promise = Alone(supplied[i]).promise
            /\ IsFulfilled(i) =>
                  /\ Returned(i).keys[5].pubkey =
                        Reserve(supplied[i].programAddresses).address
                  /\ Returned(i).keys[6].pubkey =
                        MintAuthority(supplied[i].programAddresses).address

\* the second assembly returned its instruction while the first, called
\* before it for another deployment, is still suspended, and a third has
\* been called since
C7_Witness ==
    /\ Len(calls) = 3
    /\ calls[1].pc = "awaitMint"
    /\ IsFulfilled(2)
    /\ supplied[1].programAddresses # supplied[2].programAddresses
    /\ Reserve(supplied[1].programAddresses).address
           # Reserve(supplied[2].programAddresses).address
    /\ calls[3].pc = "awaitReserve"

(***************************************************************************)
(* C8.  Round trip: for every amount a with 0 <= a <= 2^64 - 1, decoding   *)
(* the encoded payload with the same layout gives discriminant 1 and a.    *)
(* Stated as claimed; it fails where C1 fails.                             *)
(***************************************************************************)
C8_RoundTrip ==
    \A i \in Invocations :
        (Addressed(i) /\ decoded[i] # NotDecoded /\ Below2Pow64(supplied[i].amount)) =>
            decoded[i] = [instruction |-> 1, amount |-> supplied[i].amount]

(***************************************************************************)
(* C9.  Determinism: two calls with equal sender, recipient,               *)
(* ProgramAddresses and amount settle alike (equal program id, account     *)
(* list and payload, or the same error), whatever calls happened in        *)
(* between; and two frames for the same ProgramAddresses that hold a       *)
(* derived reserve address hold the same one.                              *)
(***************************************************************************)
C9_Deterministic ==
    \A i, j \in Invocations :
        /\ (Settled(i) /\ Settled(j) /\ supplied[i] = supplied[j]) =>
               calls[i].promise = calls[j].promise
        /\ (/\ supplied[i].programAddresses = supplied[j].programAddresses
            /\ calls[i].pc = "awaitMint" /\ calls[j].pc = "awaitMint") =>
               calls[i].reserveAccountAddress = calls[j].reserveAccountAddress

\* the first and the third call had equal arguments and both returned an
\* instruction, with a call for another deployment between them
C9_Witness ==
    /\ Len(calls) >= 3
    /\ supplied[1] = supplied[3]
    /\ IsFulfilled(1) /\ IsFulfilled(3)
    /\ supplied[2].programAddresses # supplied[1].programAddresses
    /\ IsFulfilled(2)

(***************************************************************************)
(* C10.  Every returned instruction targets programAddresses.solidoProgramId *)
(* and the call leaves the ProgramAddresses record and the amount it was   *)
(* given as they were.                                                     *)
(***************************************************************************)
C10_TargetsSolidoProgram ==
    \A i \in Invocations :
        /\ IsFulfilled(i) =>
               Returned(i).programId = supplied[i].programAddresses.solidoProgramId
        /\ calls[i].programAddresses = supplied[i].programAddresses
        /\ calls[i].amount = supplied[i].amount

\* an instruction was returned for a program id that is neither the instance,
\* the mint, the token program nor the system program
C10_Witness ==
    \E i \in Invocations :
        /\ IsFulfilled(i)
        /\ Returned(i).programId \notin
              {supplied[i].programAddresses.solidoInstanceId,
               supplied[i].programAddresses.stSolMintAddress,
               TOKEN_PROGRAM_ID, SystemProgramId}

====
